---------------------------- MODULE Spec2Model ----------------------------
(***************************************************************************)
(* Model of scripts/score_occupations.py: the resumable batch scorer       *)
(* (main, write_scores_to_csv, load_scored_codes) and the composite        *)
(* ranking pass (compute_rankings); and of the enrichment pass of          *)
(* scripts/enrich_onet.py (main).                                          *)
(*                                                                         *)
(* Conventions                                                             *)
(*  - A CSV cell is a string.  Python's None (a DictReader restval) is the *)
(*    sentinel NONE; csv.DictWriter writes it as the empty cell.           *)
(*  - The pass-through columns "url" and "Median Wage" are copied exactly  *)
(*    like "Occupation" and are left out of the rows.                      *)
(*  - A persisted row records how many cells its line holds (nf): 10 for a *)
(*    line written by write_scores_to_csv, 11 for a line written by        *)
(*    compute_rankings.  DictRead maps the cells to column names by        *)
(*    position under the header the file has.                              *)
(*  - Real numbers are fixed point: scores in tenths, logarithms in 1e-4,  *)
(*    normalised components in 1e-4, composites in 1e-6, final rankings in *)
(*    1e-3 (thousandths).                                                  *)
(***************************************************************************)
EXTENDS Integers, Sequences, FiniteSets, TLC

\* ---------------------------------------------------------------- bounds
\* Rows of the input CSV (scoreable and not).
NumRows == 16
\* Runs of main() in one behaviour.
MaxRuns == 2
\* Responses that depart from "one well-formed entry per submitted record",
\* failures and terminations in one behaviour.
MaxOdd == 2
\* Rows of the file a ranking pass is applied to under SpecRank.
MaxRankRows == 3
\* Rows of the input CSV an enrichment pass goes through.
MaxEnrichRows == 3

\* ------------------------------------------------------- configuration
BATCH_SIZE == 10
START_BATCH == 0
\* Weights in hundredths.
W_RESILIENCE == 50
W_GROWTH == 30
W_OPENINGS == 20

NONE == "<None>"
\* final_ranking of a line that has no such cell.
NoRank == 0 - 1

DECLINE == "Decline (-1% or lower)"
FASTER == "Faster than average (5% to 6%)"
MUCH_FASTER == "Much faster than average (7% or higher)"

GrowthLabels ==
    << DECLINE, "Little or no change", "Slower than average (1% to 2%)",
       "Average (3% to 4%)", FASTER, MUCH_FASTER >>

\* A lookup that gives 0.0 for a label that is not a key.
GrowthMapDefaultZero(text) ==
    IF \E k \in 1..Len(GrowthLabels) : GrowthLabels[k] = text
    THEN 2000 * ((CHOOSE k \in 1..Len(GrowthLabels) : GrowthLabels[k] = text) - 1)
    ELSE 0

\* GROWTH_MAP.get(text): the normalised growth in 1e-4, or -1 for None.
GROWTH_MAP(text) ==
    IF \E k \in 1..Len(GrowthLabels) : GrowthLabels[k] = text
    THEN 2000 * ((CHOOSE k \in 1..Len(GrowthLabels) : GrowthLabels[k] = text) - 1)
    ELSE -1

\* -------------------------------------------------------------- helpers
RECURSIVE SeqSum(_)
SeqSum(s) == IF s = <<>> THEN 0 ELSE Head(s) + SeqSum(Tail(s))

\* A resume filter that ignores the scored codes.
ResubmitAll(s, codes) == s

RECURSIVE SelectSeqBy(_, _)
\* [x for x in s if x.Code not in codes]
SelectSeqBy(s, codes) ==
    IF s = <<>> THEN <<>>
    ELSE IF Head(s).Code \notin codes
         THEN <<Head(s)>> \o SelectSeqBy(Tail(s), codes)
         ELSE SelectSeqBy(Tail(s), codes)

Range(s) == { s[i] : i \in 1..Len(s) }

Min2(a, b) == IF a <= b THEN a ELSE b

\* ------------------------------------------------------------ input CSV
GrowthCells == GrowthLabels \o << "", "Bright outlook" >>
OpeningsCells == << "10", "1", "100", "", "1,000", "0", "50" >>

\* Row i of data/input/All_Occupations_ONET.csv.  Codes are unique.
InputRow(i) ==
    [ JobZone |-> IF i % 6 = 0 THEN "n/a" ELSE "3",
      Code |-> ToString(i),
      Occupation |-> ToString(100 + i),
      DataLevel |-> IF i % 7 = 0 THEN "N" ELSE "Y",
      ProjectedGrowth |-> GrowthCells[(i % Len(GrowthCells)) + 1],
      ProjectedJobOpenings |-> OpeningsCells[(i % Len(OpeningsCells)) + 1] ]

ONET_CSV == [ i \in 1..NumRows |-> InputRow(i) ]

RECURSIVE Scoreable(_)
Scoreable(rows) ==
    IF rows = <<>> THEN <<>>
    ELSE IF Head(rows).JobZone \notin {"n/a", ""} /\ Head(rows).DataLevel = "Y"
         THEN <<Head(rows)>> \o Scoreable(Tail(rows))
         ELSE Scoreable(Tail(rows))

load_occupations == Scoreable(ONET_CSV)

\* source_lookup.get(code, {}) followed by src.get(column, "").
EmptySrc ==
    [ JobZone |-> "", Code |-> "", Occupation |-> "", DataLevel |-> "",
      ProjectedGrowth |-> "", ProjectedJobOpenings |-> "" ]

source_lookup(code) ==
    IF \E o \in Range(load_occupations) : o.Code = code
    THEN CHOOSE o \in Range(load_occupations) : o.Code = code
    ELSE EmptySrc

\* ------------------------------------------------------- persisted file
\* The output CSV: whether it exists, which header line it has ("none" for
\* an empty file, "score" for SCORE_COLUMNS, "ranked" for the columns with
\* final_ranking before key_drivers), and its data lines.
NoFile == [ exists |-> FALSE, header |-> "none", rows |-> <<>> ]

\* One entry of the parsed response: a JSON object (isdict) with its
\* onet_code, ai_proof_score ("" when the key is missing) and key_drivers,
\* or any other JSON value (a string, a number).
Entry(code, score, drivers) ==
    [ isdict |-> TRUE, onet_code |-> code, ai_proof_score |-> score,
      key_drivers |-> drivers ]

NotADict ==
    [ isdict |-> FALSE, onet_code |-> "", ai_proof_score |-> "",
      key_drivers |-> "" ]

\* The dict handed to writer.writerow for one result (lines 111-124).
WriteRow(result) ==
    LET src == source_lookup(result.onet_code)
    IN  [ nf |-> 10,
          JobZone |-> src.JobZone,
          Code |-> src.Code,
          Occupation |-> src.Occupation,
          DataLevel |-> src.DataLevel,
          ProjectedGrowth |-> src.ProjectedGrowth,
          ProjectedJobOpenings |-> src.ProjectedJobOpenings,
          ai_proof_score |-> result.ai_proof_score,
          final_ranking |-> NoRank,
          key_drivers |-> result.key_drivers ]

RECURSIVE WrittenRows(_)
\* The for loop of write_scores_to_csv: result.get raises on the first
\* entry that is not a dict, and the rows before it have been written.
WrittenRows(results) ==
    IF results = <<>> \/ ~Head(results).isdict THEN <<>>
    ELSE <<WriteRow(Head(results))>> \o WrittenRows(Tail(results))

WriteRaises(results) == \E i \in 1..Len(results) : ~results[i].isdict

\* write_scores_to_csv(results, OUTPUT_CSV, source_lookup, append): the file
\* after the call (the with block closes and flushes it, also on an error).
write_scores_to_csv(results, f, append) ==
    IF append /\ f.exists
    THEN [ f EXCEPT !.rows = @ \o WrittenRows(results) ]
    ELSE [ exists |-> TRUE, header |-> "score", rows |-> WrittenRows(results) ]

\* load_scored_codes(OUTPUT_CSV)
load_scored_codes(f) ==
    IF ~f.exists THEN {} ELSE { f.rows[i].Code : i \in 1..Len(f.rows) }

\* csv.DictReader: one data line read under the file's header.  A line of 10
\* cells under the 11-column header has its 10th cell in final_ranking and
\* no 11th cell, so key_drivers is the restval None.
DictRead(header, line) ==
    IF header = "ranked" /\ line.nf = 10
    THEN [ line EXCEPT !.key_drivers = NONE ]
    ELSE line

\* ------------------------------------------------------------ responses
\* The scores the collaborator gives (JSON numbers, as csv writes them).
ScoreTexts == { "1.5", "4.5" }

RECURSIVE Reverse(_)
Reverse(s) == IF s = <<>> THEN <<>> ELSE Reverse(Tail(s)) \o <<Head(s)>>

Codes(batch) == [ i \in 1..Len(batch) |-> batch[i].Code ]

\* One well-formed entry per submitted record, in order.
Faithful(batch, score) ==
    [ i \in 1..Len(batch) |-> Entry(batch[i].Code, score, "because") ]

\* The responses the collaborator may return for a batch that are parsed
\* (json.loads succeeds) but are not Faithful: entries reordered, omitted,
\* repeated, naming a record outside the batch or no record at all, lacking
\* a score, or not objects.
OddResponses(batch, score) ==
    LET good == Faithful(batch, score)
        outside == SelectSeqBy(load_occupations, Range(Codes(batch)))
        others == IF outside = <<>> THEN {}
                  ELSE { outside[1].Code, outside[Len(outside)].Code }
    IN  { Reverse(good), Tail(good), <<>>,
          good \o << Entry(good[1].onet_code, score, "again") >>,
          good \o << Entry("99-9999.99", score, "because") >>,
          << good[1], NotADict >>,
          << Entry(good[1].onet_code, "", "because") >> \o Tail(good) }
        \cup { << good[1], Entry(c, score, "because") >> : c \in others }

\* -------------------------------------------------------------- ranking
\* Line 159: raw.isdigit() is True and int(raw) raises ValueError: a cell of
\* digit characters that are not decimal digits (a superscript two).
IntValueError(cell) == cell = "²"

\* raw.replace(",", "") read as an integer: the count when the cell is all
\* digits, -1 when it is not (isdigit() is False, also for the empty cell).
\* Not applied to a cell on which int() raises.
OpeningsInt(cell) ==
    CASE cell = "0" -> 0
      [] cell = "1" -> 1
      [] cell = "10" -> 10
      [] cell = "50" -> 50
      [] cell = "100" -> 100
      [] cell = "1,000" -> 1000
      [] OTHER -> 0 - 1

\* math.log(n) in 1e-4.
MathLog(n) ==
    CASE n = 1 -> 0
      [] n = 10 -> 23026
      [] n = 50 -> 39120
      [] n = 100 -> 46052
      [] n = 1000 -> 69078

\* float(score_str) in tenths.
Float(score_str) ==
    CASE score_str = "1.0" -> 10
      [] score_str = "1.5" -> 15
      [] score_str = "2.0" -> 20
      [] score_str = "3.0" -> 30
      [] score_str = "4.0" -> 40
      [] score_str = "4.5" -> 45
      [] score_str = "5.0" -> 50

\* Lines 157-162: the row qualifies when its count is a positive integer.
Qualifies(row) == OpeningsInt(row.ProjectedJobOpenings) > 0

LogOpening(row) == MathLog(OpeningsInt(row.ProjectedJobOpenings))

\* Lines 164-171: valid_logs, log_min and log_range (1.0 when degenerate).
ValidLogs(rows) ==
    { LogOpening(rows[i]) : i \in { j \in 1..Len(rows) : Qualifies(rows[j]) } }

SetMin(S) == CHOOSE x \in S : \A y \in S : x <= y
SetMax(S) == CHOOSE x \in S : \A y \in S : x >= y

\* A minimum that is always the default of line 170.
LogMinZero(rows) == 0

LogMin(rows) == IF ValidLogs(rows) # {} THEN SetMin(ValidLogs(rows)) ELSE 0

LogRange(rows) ==
    LET v == ValidLogs(rows)
    IN  IF v # {} /\ SetMax(v) # SetMin(v) THEN SetMax(v) - SetMin(v)
        ELSE 10000

\* Lines 178-180: the normalised components in 1e-4, -1 for None.
RNorm(row) ==
    IF row.ai_proof_score # "" THEN (Float(row.ai_proof_score) - 10) * 250
    ELSE 0 - 1

GNorm(row) == GROWTH_MAP(row.ProjectedGrowth)

ONorm(row, log_min, log_range) ==
    IF Qualifies(row)
    THEN ((LogOpening(row) - log_min) * 10000) \div log_range
    ELSE 0 - 1

\* Lines 183-192: the parts and weights lists, each component appended when
\* it is not None.
Parts(row, log_min, log_range) ==
    (IF RNorm(row) # -1 THEN << RNorm(row) * W_RESILIENCE >> ELSE <<>>)
    \o (IF GNorm(row) # -1 THEN << GNorm(row) * W_GROWTH >> ELSE <<>>)
    \o (IF ONorm(row, log_min, log_range) # -1
        THEN << ONorm(row, log_min, log_range) * W_OPENINGS >> ELSE <<>>)

Weights(row) ==
    (IF RNorm(row) # -1 THEN << W_RESILIENCE >> ELSE <<>>)
    \o (IF GNorm(row) # -1 THEN << W_GROWTH >> ELSE <<>>)
    \o (IF Qualifies(row) THEN << W_OPENINGS >> ELSE <<>>)

\* A composite that is not renormalised over the present weights.
RawScoreAllWeights(row, log_min, log_range) ==
    SeqSum(Parts(row, log_min, log_range))
        \div (W_RESILIENCE + W_GROWTH + W_OPENINGS)

\* Line 194: raw_score in 1e-6 (the product is taken before the division,
\* so the quotient is truncated once).
RawScore(row, log_min, log_range) ==
    IF Weights(row) # <<>>
    THEN (SeqSum(Parts(row, log_min, log_range))
            * (W_RESILIENCE + W_GROWTH + W_OPENINGS)) \div SeqSum(Weights(row))
    ELSE 0

\* A pass without the decline penalty.
NoPenalty(row, raw_score) == raw_score

\* Lines 196-198: the decline penalty.
Penalty(row, raw_score) ==
    IF row.ai_proof_score # "" /\ Float(row.ai_proof_score) < 20
       /\ row.ProjectedGrowth = DECLINE
    THEN Min2(raw_score, 200000)
    ELSE raw_score

\* A pass without the growth boost.
NoBoost(row, raw_score) == raw_score

\* A boost that is not capped at 1.0.
BoostUncapped(row, raw_score) ==
    IF row.ai_proof_score # "" /\ Float(row.ai_proof_score) >= 40
       /\ row.ProjectedGrowth \in { FASTER, MUCH_FASTER }
    THEN raw_score + 50000
    ELSE raw_score

\* Lines 200-205: the growth boost.
Boost(row, raw_score) ==
    IF row.ai_proof_score # "" /\ Float(row.ai_proof_score) >= 40
       /\ row.ProjectedGrowth \in { FASTER, MUCH_FASTER }
    THEN Min2(raw_score + 50000, 1000000)
    ELSE raw_score

\* round(raw_score, 3), in thousandths; a value halfway between two
\* thousandths goes up (Python rounds the binary float, which at such a
\* value is the nearer of the two, either one).
Round3(raw_score) == (raw_score + 500) \div 1000

\* Line 207: the row's final_ranking.
FinalRanking(row, log_min, log_range) ==
    Round3(Boost(row, Penalty(row, RawScore(row, log_min, log_range))))

RECURSIVE InsertBeforeTies(_, _)
\* An insertion that puts r before the rows whose final_ranking equals its
\* own: a sort that is not stable.
InsertBeforeTies(sorted, r) ==
    IF sorted = <<>> THEN << r >>
    ELSE IF Head(sorted).final_ranking > r.final_ranking
         THEN << Head(sorted) >> \o InsertBeforeTies(Tail(sorted), r)
         ELSE << r >> \o sorted

RECURSIVE InsertDesc(_, _)
\* r goes after every row whose final_ranking is at least its own.
InsertDesc(sorted, r) ==
    IF sorted = <<>> THEN << r >>
    ELSE IF Head(sorted).final_ranking >= r.final_ranking
         THEN << Head(sorted) >> \o InsertDesc(Tail(sorted), r)
         ELSE << r >> \o sorted

RECURSIVE SortDesc(_)
\* rows.sort(key=final_ranking, reverse=True): stable.
SortDesc(rows) ==
    IF rows = <<>> THEN <<>>
    ELSE InsertDesc(SortDesc(SubSeq(rows, 1, Len(rows) - 1)), rows[Len(rows)])

\* One line written by writer.writerows under the 11 columns.
RankedLine(row) ==
    [ row EXCEPT !.nf = 11,
                 !.key_drivers = IF @ = NONE THEN "" ELSE @ ]

\* Lines 148-150: the rows compute_rankings reads.
ReadRows(f) == [ i \in 1..Len(f.rows) |-> DictRead(f.header, f.rows[i]) ]

\* A pass that keeps the final_ranking stored in a line that has one and
\* computes it only for the others.
RankedRowsKeepStored(rows) ==
    LET log_min == LogMin(rows)
        log_range == LogRange(rows)
    IN  SortDesc([ i \in 1..Len(rows) |->
                     IF rows[i].nf = 11 THEN rows[i]
                     ELSE [ rows[i] EXCEPT !.final_ranking =
                              FinalRanking(rows[i], log_min, log_range) ] ])

\* Lines 173-210: the rows with final_ranking set, sorted.
RankedRows(rows) ==
    LET log_min == LogMin(rows)
        log_range == LogRange(rows)
    IN  SortDesc([ i \in 1..Len(rows) |->
                     [ rows[i] EXCEPT !.final_ranking =
                           FinalRanking(rows[i], log_min, log_range) ] ])

\* Lines 215-218: the rewritten file.
RankedFile(rows) ==
    LET sorted == RankedRows(rows)
    IN  [ exists |-> TRUE, header |-> "ranked",
          rows |-> [ i \in 1..Len(sorted) |-> RankedLine(sorted[i]) ] ]

\* ---------------------------------------------------------------- state
VARIABLES
    file,          \* data/output/ai_resilience_scores.csv
    pc,            \* where main() is: idle, batches, rewrite, done, failed,
                   \* crashed (unhandled exception), killed (terminated)
    scored_codes,  \* main's scored_codes
    remaining,     \* main's remaining
    batch_idx,     \* batches of this run already gone through
    write_header,  \* main's write_header
    ranked,        \* compute_rankings' rows, between open(.., "w") and close
    runs,          \* runs started
    odd,           \* responses and failures other than Faithful so far
    dispatched,    \* the batches sent by client.messages.create in this run
    log,           \* how each batch of this run ended, in order
    start_file,    \* the file as it was when this run started
    completed,     \* <<Code, score, key_drivers>> of the entries of every
                   \* batch written without error
    pass_rows,     \* the rows the latest ranking pass read (line 150)
    raw_scores,    \* raw_score (line 194) of each of those rows
    \* scripts/enrich_onet.py
    cache,         \* main's cache dict: a set of [code, data] with unique codes
    cache_file,    \* data/intermediate/onet_enrichment_cache.json
    epc,           \* where enrich_onet's main() is: idle, loop, save, dump,
                   \* done, crashed (unhandled exception), killed
    row_idx,       \* the row the for loop of line 118 is at (from 1)
    eruns,         \* enrichment runs started
    fetch_log,     \* the calls of fetch_onet_data in this run, in order
    start_cache,   \* the cache as loaded when this run started
    fetched_ever,  \* Codes fetch_onet_data was called for, in any run
    enriched_csv   \* the enrichment columns of the CSV written at the end

scorerVars ==
    << file, pc, scored_codes, remaining, batch_idx, write_header, ranked,
       runs, odd, dispatched, log, start_file, completed, pass_rows,
       raw_scores >>

enrichVars ==
    << cache, cache_file, epc, row_idx, eruns, fetch_log, start_cache,
       fetched_ever, enriched_csv >>

vars == << scorerVars, enrichVars >>

\* The cache file: whether it exists, whether its text is a complete JSON
\* document ("json") or what a write that did not finish left ("partial"),
\* and the entries of the document.
NoCacheFile == [ exists |-> FALSE, text |-> "json", data |-> {} ]

\* enrich_onet.py has not been run.
EnrichIdle ==
    /\ cache = {}
    /\ cache_file = NoCacheFile
    /\ epc = "idle"
    /\ row_idx = 1
    /\ eruns = 0
    /\ fetch_log = <<>>
    /\ start_cache = {}
    /\ fetched_ever = {}
    /\ enriched_csv = <<>>

\* Line 242: remaining split into consecutive slices of BATCH_SIZE.
Batches(rem) ==
    [ k \in 1..((Len(rem) + BATCH_SIZE - 1) \div BATCH_SIZE) |->
        SubSeq(rem, (k - 1) * BATCH_SIZE + 1, Min2(k * BATCH_SIZE, Len(rem))) ]

total == Len(Batches(remaining))

\* The batch the for loop of line 248 is at.
CurrentBatch == Batches(remaining)[batch_idx + 1]

NoLast == [ kind |-> "none", batch |-> <<>>, results |-> <<>> ]

\* The latest batch of this run.
last == IF log = <<>> THEN NoLast ELSE log[Len(log)]

Stopped == { "idle", "done", "failed", "crashed", "killed" }

Init ==
    /\ file = NoFile
    /\ pc = "idle"
    /\ scored_codes = {}
    /\ remaining = <<>>
    /\ batch_idx = 0
    /\ write_header = TRUE
    /\ ranked = NoFile
    /\ runs = 0
    /\ odd = 0
    /\ dispatched = <<>>
    /\ log = <<>>
    /\ start_file = NoFile
    /\ completed = {}
    /\ pass_rows = <<>>
    /\ raw_scores = <<>>
    /\ EnrichIdle

\* ------------------------------------------------------- main: set-up
\* Lines 227-246 with the client constructed: the resume set is read from
\* the output file and the remaining records are planned into batches.
StartRun ==
    /\ pc \in Stopped
    /\ runs < MaxRuns
    /\ runs' = runs + 1
    /\ scored_codes' = load_scored_codes(file)
    /\ remaining' = SelectSeqBy(load_occupations, load_scored_codes(file))
    /\ write_header' = (~file.exists \/ Cardinality(load_scored_codes(file)) = 0)
    /\ batch_idx' = START_BATCH
    /\ dispatched' = <<>>
    /\ log' = <<>>
    /\ start_file' = file
    /\ ranked' = NoFile
    /\ pc' = "batches"
    /\ UNCHANGED << file, odd, completed, pass_rows, raw_scores >>
    /\ UNCHANGED enrichVars

\* Lines 232-237: anthropic.Anthropic() raises AuthenticationError and main
\* returns False.
StartRunAuthError ==
    /\ pc \in Stopped
    /\ runs < MaxRuns
    /\ odd < MaxOdd
    /\ runs' = runs + 1
    /\ odd' = odd + 1
    /\ scored_codes' = load_scored_codes(file)
    /\ remaining' = <<>>
    /\ write_header' = TRUE
    /\ batch_idx' = 0
    /\ dispatched' = <<>>
    /\ log' = <<>>
    /\ start_file' = file
    /\ ranked' = NoFile
    /\ pc' = "failed"
    /\ UNCHANGED << file, completed, pass_rows, raw_scores >>
    /\ UNCHANGED enrichVars

\* ---------------------------------------------------- main: the batches
\* A batch that ends in one of the three handlers of lines 271-285 before
\* anything is written: the handler logs (and sleeps) and continues.
\* A handler that stays on the failed batch.
RetrySameBatch(idx) == idx

\* "continue": the for loop of line 248 moves to the next batch.
Continue(idx) == idx + 1

SkipBatch(kind) ==
    /\ pc = "batches"
    /\ batch_idx < total
    /\ odd < MaxOdd
    /\ odd' = odd + 1
    /\ dispatched' = Append(dispatched, Codes(CurrentBatch))
    /\ log' = Append(log, [ kind |-> kind, batch |-> Codes(CurrentBatch),
                             results |-> <<>> ])
    /\ batch_idx' = Continue(batch_idx)
    /\ UNCHANGED << file, pc, scored_codes, remaining, write_header, ranked,
                    runs, start_file, completed, pass_rows, raw_scores >>
    /\ UNCHANGED enrichVars

\* Lines 271-274: parse_response raises json.JSONDecodeError.
BatchParseError == SkipBatch("JSONDecodeError")

\* Lines 276-279: client.messages.create raises anthropic.RateLimitError.
BatchRateLimited == SkipBatch("RateLimitError")

\* Lines 281-285: client.messages.create raises any other exception, a
\* transport error or anthropic.AuthenticationError (a rejected API key).
BatchApiError ==
    \E kind \in { "APIConnectionError", "AuthenticationError" } : SkipBatch(kind)

\* Lines 268-269: min(scores) and the :.1f format raise on an empty list
\* and on a missing score (None).
SummaryRaises(results) ==
    \/ results = <<>>
    \/ \E i \in 1..Len(results) : results[i].ai_proof_score = ""

\* How the try block of lines 255-269 ends for a parsed response.
Outcome(results) ==
    IF WriteRaises(results) THEN "write_raised"
    ELSE IF SummaryRaises(results) THEN "summary_raised"
    ELSE "scored"

\* Line 266 is reached only when write_scores_to_csv returns.
WriteHeaderAfter(results, wh) == IF WriteRaises(results) THEN wh ELSE FALSE

\* Lines 255-269 and 281-288: the response parses; its entries are written;
\* an exception raised while writing or summarising is handled by the
\* "except Exception" clause, which continues with the next batch.
BatchResponse ==
    /\ pc = "batches"
    /\ batch_idx < total
    /\ \E score \in ScoreTexts :
         \E results \in { Faithful(CurrentBatch, score) }
                \cup (IF odd < MaxOdd THEN OddResponses(CurrentBatch, score)
                      ELSE {}) :
            /\ odd' = IF results = Faithful(CurrentBatch, score) THEN odd
                      ELSE odd + 1
            /\ file' = write_scores_to_csv(results, file, ~write_header)
            /\ write_header' = WriteHeaderAfter(results, write_header)
            /\ log' = Append(log, [ kind |-> Outcome(results),
                                     batch |-> Codes(CurrentBatch),
                                     results |-> results ])
            /\ completed' =
                 IF Outcome(results) = "scored"
                 THEN completed \cup
                        { << WriteRow(results[i]).Code, results[i].ai_proof_score,
                             results[i].key_drivers >> : i \in 1..Len(results) }
                 ELSE completed
    /\ dispatched' = Append(dispatched, Codes(CurrentBatch))
    /\ batch_idx' = batch_idx + 1
    /\ UNCHANGED << pc, scored_codes, remaining, ranked, runs, start_file,
                    pass_rows, raw_scores >>
    /\ UNCHANGED enrichVars

\* ------------------------------------------------- main: the ranking pass
\* Line 148: open() raises FileNotFoundError, which nothing handles.
RankingFileMissing ==
    /\ pc = "batches"
    /\ batch_idx >= total
    /\ ~file.exists
    /\ pc' = "crashed"
    /\ UNCHANGED << file, scored_codes, remaining, batch_idx, write_header,
                    ranked, runs, odd, dispatched, log, start_file,
                    completed, pass_rows, raw_scores >>
    /\ UNCHANGED enrichVars

\* Lines 152-153: no rows, compute_rankings returns and main completes.
RankingNoRows ==
    /\ pc = "batches"
    /\ batch_idx >= total
    /\ file.exists
    /\ ReadRows(file) = <<>>
    /\ pc' = "done"
    /\ UNCHANGED << file, scored_codes, remaining, batch_idx, write_header,
                    ranked, runs, odd, dispatched, log, start_file,
                    completed, pass_rows, raw_scores >>
    /\ UNCHANGED enrichVars

\* Some row's count makes int(raw) raise at line 159.
OpeningsRaise(rows) ==
    \E i \in 1..Len(rows) : IntValueError(rows[i].ProjectedJobOpenings)

\* Lines 157-160: int(raw) raises ValueError, which nothing handles; the
\* file has only been read.  (No row of ONET_CSV holds such a cell, so this
\* step is part of NextRank only.)
RankingRaises ==
    /\ pc = "batches"
    /\ batch_idx >= total
    /\ file.exists
    /\ ReadRows(file) # <<>>
    /\ OpeningsRaise(ReadRows(file))
    /\ pc' = "crashed"
    /\ UNCHANGED << file, scored_codes, remaining, batch_idx, write_header,
                    ranked, runs, odd, dispatched, log, start_file,
                    completed, pass_rows, raw_scores >>
    /\ UNCHANGED enrichVars

\* Lines 148-215: the rows are read, ranked and sorted, and the file is
\* opened for writing, which truncates it.
RankingOpenForWrite ==
    /\ pc = "batches"
    /\ batch_idx >= total
    /\ file.exists
    /\ ReadRows(file) # <<>>
    /\ ~OpeningsRaise(ReadRows(file))
    /\ LET rows == ReadRows(file)
       IN  /\ pass_rows' = rows
           /\ raw_scores' = [ i \in 1..Len(rows) |->
                                RawScore(rows[i], LogMin(rows), LogRange(rows)) ]
           /\ ranked' = RankedFile(rows)
    /\ file' = [ exists |-> TRUE, header |-> "none", rows |-> <<>> ]
    /\ pc' = "rewrite"
    /\ UNCHANGED << scored_codes, remaining, batch_idx, write_header, runs,
                    odd, dispatched, log, start_file, completed >>
    /\ UNCHANGED enrichVars

\* Lines 216-218 and 294-295: the header and the rows are written, the file
\* is closed, and main returns True.
RankingWritten ==
    /\ pc = "rewrite"
    /\ file' = ranked
    /\ pc' = "done"
    /\ UNCHANGED << scored_codes, remaining, batch_idx, write_header, ranked,
                    runs, odd, dispatched, log, start_file, completed,
                    pass_rows, raw_scores >>
    /\ UNCHANGED enrichVars

\* The process is terminated from outside, between two steps.
Kill ==
    /\ pc \in { "batches", "rewrite" }
    /\ odd < MaxOdd
    /\ odd' = odd + 1
    /\ pc' = "killed"
    /\ UNCHANGED << file, scored_codes, remaining, batch_idx, write_header,
                    ranked, runs, dispatched, log, start_file, completed,
                    pass_rows, raw_scores >>
    /\ UNCHANGED enrichVars

Next ==
    \/ StartRun
    \/ StartRunAuthError
    \/ BatchParseError
    \/ BatchRateLimited
    \/ BatchApiError
    \/ BatchResponse
    \/ RankingFileMissing
    \/ RankingNoRows
    \/ RankingOpenForWrite
    \/ RankingWritten
    \/ Kill

Spec == Init /\ [][Next]_vars

\* ------------------------------------------- the ranking pass on its own
\* <<ai_proof_score, Projected Growth, Projected Job Openings>> of the rows
\* a pass is applied to: every set of present components, the penalty and
\* boost cases, every growth label, equal and distinct counts, counts that do
\* not qualify and a count on which int() raises.
Catalogue ==
    { << "3.0", "Average (3% to 4%)", "10" >>,
      << "3.0", "Average (3% to 4%)", "1" >>,
      << "1.5", DECLINE, "1,000" >>,
      << "4.5", MUCH_FASTER, "100" >>,
      << "5.0", MUCH_FASTER, "1,000" >>,
      << "4.0", FASTER, "0" >>,
      << "1.5", "Bright outlook", "50" >>,
      << "3.0", "", "" >>,
      << "", "Average (3% to 4%)", "" >>,
      << "", DECLINE, "100" >>,
      << "", "", "1" >>,
      << "", "", "" >>,
      << "3.0", "Little or no change", "10" >>,
      << "1.5", "Slower than average (1% to 2%)", "50" >>,
      << "3.0", "Average (3% to 4%)", "²" >> }

\* Line i of a scored file holding the cells c.
ScoredLine(i, c) ==
    [ nf |-> 10, JobZone |-> "3", Code |-> ToString(i),
      Occupation |-> ToString(100 + i), DataLevel |-> "Y",
      ProjectedGrowth |-> c[2], ProjectedJobOpenings |-> c[3],
      ai_proof_score |-> c[1], final_ranking |-> NoRank,
      key_drivers |-> "because" ]

ScoredFile(cells) ==
    [ exists |-> TRUE, header |-> "score",
      rows |-> [ i \in 1..Len(cells) |-> ScoredLine(i, cells[i]) ] ]

\* compute_rankings(OUTPUT_CSV) called on a scored file of 1..MaxRankRows
\* rows: main is past its (empty) batch loop.
InitRank ==
    /\ file \in { ScoredFile(cells) :
                    cells \in UNION { [ 1..n -> Catalogue ] : n \in 1..MaxRankRows } }
    /\ pc = "batches"
    /\ scored_codes = {}
    /\ remaining = <<>>
    /\ batch_idx = 0
    /\ write_header = FALSE
    /\ ranked = NoFile
    /\ runs = 1
    /\ odd = 0
    /\ dispatched = <<>>
    /\ log = <<>>
    /\ start_file = file
    /\ completed = {}
    /\ pass_rows = <<>>
    /\ raw_scores = <<>>
    /\ EnrichIdle

NextRank ==
    \/ RankingRaises
    \/ RankingOpenForWrite
    \/ RankingWritten

SpecRank == InitRank /\ [][NextRank]_vars

\* ------------------------------------------- scripts/enrich_onet.py: main
\* Lines 109-111: the Codes of the rows of INPUT_CSV, in file order.
EnrichRows == [ i \in 1..MaxEnrichRows |-> ONET_CSV[i].Code ]

\* The three enrichment fields of one occupation.
Data(wage, growth, openings) ==
    [ median_wage |-> wage, projected_growth |-> growth,
      projected_job_openings |-> openings ]

\* Lines 133-137: what is recorded for a fetch that raised.
EmptyData == Data("", "", "")

\* Lines 84-97: what fetch_onet_data returns when it returns: the fields the
\* page has, "" for each field it lacks.
FetchResults ==
    { Data("$50,000", "Average (3% to 4%)", "100"),
      Data("", "Decline (-1% or lower)", ""),
      EmptyData }

\* The keys of a cache dict.
Keys(c) == { e.code : e \in c }

\* c[code] = data
Put(c, code, data) ==
    { e \in c : e.code # code } \cup { [ code |-> code, data |-> data ] }

\* c.get(code, {}) followed by .get(field, "") for the three fields.
Get(c, code) ==
    IF code \in Keys(c) THEN (CHOOSE e \in c : e.code = code).data
    ELSE EmptyData

EStopped == { "idle", "done", "crashed", "killed" }

\* Lines 101-115: the cache file is loaded when it exists and the rows of
\* the input CSV are read.
EnrichStart ==
    /\ epc \in EStopped
    /\ eruns < MaxRuns
    /\ ~cache_file.exists \/ cache_file.text = "json"
    /\ eruns' = eruns + 1
    /\ cache' = IF cache_file.exists THEN cache_file.data ELSE {}
    /\ start_cache' = IF cache_file.exists THEN cache_file.data ELSE {}
    /\ row_idx' = 1
    /\ fetch_log' = <<>>
    /\ enriched_csv' = <<>>
    /\ epc' = "loop"
    /\ UNCHANGED << cache_file, fetched_ever >>
    /\ UNCHANGED scorerVars

\* Line 106: json.load raises json.JSONDecodeError on a cache file that is
\* not a complete document; nothing handles it.
EnrichStartCacheUnreadable ==
    /\ epc \in EStopped
    /\ eruns < MaxRuns
    /\ cache_file.exists
    /\ cache_file.text = "partial"
    /\ eruns' = eruns + 1
    /\ cache' = {}
    /\ start_cache' = {}
    /\ row_idx' = 1
    /\ fetch_log' = <<>>
    /\ enriched_csv' = <<>>
    /\ epc' = "crashed"
    /\ UNCHANGED << cache_file, fetched_ever >>
    /\ UNCHANGED scorerVars

\* Line 120: the row is fetched when its Code is not a key of the cache.
NeedsFetch(code, c) == code \notin Keys(c)

\* Lines 120-121: the Code is in the cache, continue.
EnrichSkip ==
    /\ epc = "loop"
    /\ row_idx <= Len(EnrichRows)
    /\ ~NeedsFetch(EnrichRows[row_idx], cache)
    /\ row_idx' = row_idx + 1
    /\ UNCHANGED << cache, cache_file, epc, eruns, fetch_log, start_cache,
                    fetched_ever, enriched_csv >>
    /\ UNCHANGED scorerVars

\* The call of fetch_onet_data for the current row ends with outcome ok and
\* data is recorded in the cache dict (lines 127 and 133-137).
Fetched(ok, data) ==
    /\ epc = "loop"
    /\ row_idx <= Len(EnrichRows)
    /\ NeedsFetch(EnrichRows[row_idx], cache)
    /\ cache' = Put(cache, EnrichRows[row_idx], data)
    /\ fetch_log' = Append(fetch_log, [ code |-> EnrichRows[row_idx], ok |-> ok,
                                         data |-> data ])
    /\ fetched_ever' = fetched_ever \cup { EnrichRows[row_idx] }
    /\ epc' = "save"
    /\ UNCHANGED << cache_file, row_idx, eruns, start_cache, enriched_csv >>
    /\ UNCHANGED scorerVars

\* Lines 125-130: fetch_onet_data returns.
EnrichFetchReturns == \E data \in FetchResults : Fetched(TRUE, data)

\* Lines 131-137: fetch_onet_data raises (urlopen fails or times out); three
\* empty values are recorded.
EnrichFetchRaises == Fetched(FALSE, EmptyData)

\* Line 140: open(CACHE_FILE, "w") truncates the cache file.
EnrichOpenCache ==
    /\ epc = "save"
    /\ cache_file' = [ exists |-> TRUE, text |-> "partial", data |-> {} ]
    /\ epc' = "dump"
    /\ UNCHANGED << cache, row_idx, eruns, fetch_log, start_cache,
                    fetched_ever, enriched_csv >>
    /\ UNCHANGED scorerVars

\* Lines 141-143: json.dump writes the whole dict, the file is closed, and
\* after the delay the loop goes to the next row.
EnrichDump ==
    /\ epc = "dump"
    /\ cache_file' = [ exists |-> TRUE, text |-> "json", data |-> cache ]
    /\ row_idx' = row_idx + 1
    /\ epc' = "loop"
    /\ UNCHANGED << cache, eruns, fetch_log, start_cache, fetched_ever,
                    enriched_csv >>
    /\ UNCHANGED scorerVars

\* Lines 145-161: after the last row the CSV is written with the enrichment
\* columns taken from the cache.
EnrichWriteCsv ==
    /\ epc = "loop"
    /\ row_idx > Len(EnrichRows)
    /\ enriched_csv' = [ i \in 1..Len(EnrichRows) |-> Get(cache, EnrichRows[i]) ]
    /\ epc' = "done"
    /\ UNCHANGED << cache, cache_file, row_idx, eruns, fetch_log,
                    start_cache, fetched_ever >>
    /\ UNCHANGED scorerVars

\* The process is terminated from outside, between two steps.
EnrichKill ==
    /\ epc \in { "loop", "save", "dump" }
    /\ epc' = "killed"
    /\ UNCHANGED << cache, cache_file, row_idx, eruns, fetch_log,
                    start_cache, fetched_ever, enriched_csv >>
    /\ UNCHANGED scorerVars

NextEnrich ==
    \/ EnrichStart
    \/ EnrichStartCacheUnreadable
    \/ EnrichSkip
    \/ EnrichFetchReturns
    \/ EnrichFetchRaises
    \/ EnrichOpenCache
    \/ EnrichDump
    \/ EnrichWriteCsv
    \/ EnrichKill

SpecEnrich == Init /\ [][NextEnrich]_vars

\* ======================================================================
\* Properties
\* ======================================================================
FailKinds ==
    { "JSONDecodeError", "RateLimitError", "APIConnectionError",
      "AuthenticationError" }

FileCodes(f) == { f.rows[i].Code : i \in 1..Len(f.rows) }

\* The scoreable input rows whose Code is not in the output file this run
\* started from, in input order.
ExpectedInput ==
    SelectSeq(ONET_CSV,
              LAMBDA r : /\ r.JobZone # "n/a" /\ r.JobZone # ""
                         /\ r.DataLevel = "Y"
                         /\ r.Code \notin FileCodes(start_file))

\* The loop of this run has gone through every batch.
LoopFinished == runs > 0 /\ pc \in { "rewrite", "done", "crashed" }

\* C1: the batches a run dispatches are the consecutive BATCH_SIZE slices, in
\* input order, of the scoreable input records whose Code is not in the
\* output file the run started from; when the loop has finished every such
\* record has been submitted exactly once, M - N records in all.
C1_ResumeSet ==
    (runs > 0 /\ pc # "failed") =>
        LET want == Codes(ExpectedInput)
            n == Len(want)
            M == Len(load_occupations)
            N == Cardinality({ i \in 1..M :
                                 load_occupations[i].Code \in FileCodes(start_file) })
        IN  /\ \A k \in 1..Len(dispatched) :
                 /\ (k - 1) * BATCH_SIZE < n
                 /\ dispatched[k] = SubSeq(want, (k - 1) * BATCH_SIZE + 1,
                                           Min2(k * BATCH_SIZE, n))
            /\ LoopFinished =>
                 /\ SeqSum([ k \in 1..Len(dispatched) |-> Len(dispatched[k]) ]) = n
                 /\ n = M - N

\* A second run that resumed: some records were already in the output, the
\* others were dispatched, and the run completed.
C1_Witness ==
    /\ runs = 2
    /\ pc = "done"
    /\ FileCodes(start_file) \cap Range(Codes(load_occupations)) # {}
    /\ Len(dispatched) > 0

\* C2: the persisted output never holds two rows with the same Code.
C2_NoDuplicateCodes ==
    \A i, j \in 1..Len(file.rows) :
        i # j => file.rows[i].Code # file.rows[j].Code

\* A step that went through one batch (dispatched it and handled the result).
BatchStep == Len(log') = Len(log) + 1

\* C3: a batch that fails (parse failure, rate limit, any other dispatch
\* error) leaves the output exactly as it was, none of its records is in the
\* output, the run goes on with the next batch, and the next run has the
\* failed batch's records in its input set.
C3_FailedBatchLeavesOutput ==
    [][ /\ (BatchStep /\ last'.kind \in FailKinds) =>
              /\ file' = file
              /\ pc' = "batches"
              /\ batch_idx' = batch_idx + 1
              /\ Range(last'.batch) \cap FileCodes(file') = {}
        /\ (runs' = runs + 1 /\ pc' = "batches") =>
              \A k \in 1..Len(log) :
                  log[k].kind \in FailKinds =>
                      Range(log[k].batch) \subseteq Range(Codes(remaining'))
      ]_vars

\* C4: when the process is terminated, the output still holds the result of
\* every batch that completed before, in this run and in earlier ones.
C4_KillKeepsCompleted ==
    pc = "killed" =>
        \A p \in completed :
            \E i \in 1..Len(file.rows) :
                /\ file.rows[i].Code = p[1]
                /\ file.rows[i].ai_proof_score = p[2]

SortedDescending(rows) ==
    \A i, j \in 1..Len(rows) :
        i < j => rows[i].final_ranking >= rows[j].final_ranking

\* C5: a run that got past client setup and went through its last batch
\* completes, with the output rewritten in descending final ranking,
\* whatever the outcomes of its batches.
C5_RunEndsRanked ==
    (runs > 0 /\ pc \in { "done", "crashed" }) =>
        /\ pc = "done"
        /\ file.exists
        /\ file.rows # <<>> => file.header = "ranked"
        /\ SortedDescending(file.rows)

\* C6: within a run the batches are dispatched one after another in
\* partition order, none twice, a failed one included: K batches take at
\* most K dispatches.
C6_DispatchedOnce ==
    /\ Len(dispatched) <= total
    /\ Len(log) = Len(dispatched)
    /\ \A k \in 1..Len(dispatched) :
         dispatched[k] = Codes(Batches(remaining)[START_BATCH + k])
    /\ \A j, k \in 1..Len(dispatched) : j < k => dispatched[j] # dispatched[k]
    /\ pc = "batches" => batch_idx = START_BATCH + Len(dispatched)

\* A run over two batches whose first batch failed and whose second was
\* then dispatched, and which terminated.
C6_Witness ==
    /\ pc = "done"
    /\ total = 2
    /\ Len(dispatched) = 2
    /\ log[1].kind \in FailKinds

AuthFailureDetected ==
    \/ pc = "failed"
    \/ \E k \in 1..Len(log) : log[k].kind = "AuthenticationError"

\* C7: once an authentication failure is detected the run is aborted: it is
\* not handled by cooldown-and-skip, nothing is dispatched afterwards and the
\* output is as it was at run start.
C7_AuthFailureFatal ==
    AuthFailureDetected =>
        /\ pc = "failed"
        /\ file = start_file
        /\ \A k \in 1..Len(log) : log[k].kind # "AuthenticationError"

\* C8: the step that handles a batch's response appends a row for every
\* entry of the response or no row at all, and a batch whose rows were
\* written is not handled as a failure.
C8_WholeBatchOrNothing ==
    [][ BatchStep =>
          LET base == IF ~write_header /\ file.exists THEN Len(file.rows) ELSE 0
              n == Len(file'.rows) - base
          IN  /\ n = Len(last'.results) \/ n = 0
              /\ last'.kind # "scored" => n = 0
      ]_vars

\* C9: the rows appended for a response carry, entry by entry, the fields of
\* the input record with the entry's identifier and the entry's score and
\* rationale, whatever the order of the entries; a submitted record the
\* response omits has no row in the output.
C9_MergeByIdentifier ==
    [][ (BatchStep /\ last'.kind = "scored") =>
          LET res == last'.results
              base == Len(file'.rows) - Len(res)
          IN  /\ \A i \in 1..Len(res) :
                   LET row == DictRead(file'.header, file'.rows[base + i])
                   IN  \A o \in Range(load_occupations) :
                           o.Code = res[i].onet_code =>
                               /\ row.Code = o.Code
                               /\ row.JobZone = o.JobZone
                               /\ row.Occupation = o.Occupation
                               /\ row.ProjectedGrowth = o.ProjectedGrowth
                               /\ row.ProjectedJobOpenings = o.ProjectedJobOpenings
                               /\ row.ai_proof_score = res[i].ai_proof_score
                               /\ row.key_drivers = res[i].key_drivers
              /\ \A c \in Range(last'.batch) :
                   (\A i \in 1..Len(res) : res[i].onet_code # c) =>
                       c \notin FileCodes(file')
      ]_vars

\* The components a row has: a non-empty score, one of the six growth
\* labels, a positive integer count.
PresentComponents(row) ==
    (IF row.ai_proof_score # "" THEN { "resilience" } ELSE {})
    \cup (IF row.ProjectedGrowth \in Range(GrowthLabels) THEN { "growth" } ELSE {})
    \cup (IF OpeningsInt(row.ProjectedJobOpenings) > 0 THEN { "openings" } ELSE {})

\* (sum of norm*weight over the set P) / (sum of weight over P) * (sum of
\* the three weights), in 1e-6; 0 when P is empty.
WeightedOver(P, r_norm, g_norm, o_norm) ==
    LET num == (IF "resilience" \in P THEN r_norm * 50 ELSE 0)
               + (IF "growth" \in P THEN g_norm * 30 ELSE 0)
               + (IF "openings" \in P THEN o_norm * 20 ELSE 0)
        den == (IF "resilience" \in P THEN 50 ELSE 0)
               + (IF "growth" \in P THEN 30 ELSE 0)
               + (IF "openings" \in P THEN 20 ELSE 0)
    IN  IF P = {} THEN 0 ELSE (num * (50 + 30 + 20)) \div den

\* raw_scores[i] is the weighted average of row i over its present
\* components, for every row of the pass.
CompositeIsWeightedAverage ==
    \A i \in 1..Len(raw_scores) :
        LET row == pass_rows[i]
        IN  raw_scores[i] =
                WeightedOver(PresentComponents(row), RNorm(row), GNorm(row),
                             ONorm(row, LogMin(pass_rows), LogRange(pass_rows)))

\* Row i has all three components: resilience 3.0, growth "Average (3% to
\* 4%)" and normalised openings 0.5.
IsExampleRow(i) ==
    /\ pass_rows[i].ai_proof_score = "3.0"
    /\ pass_rows[i].ProjectedGrowth = "Average (3% to 4%)"
    /\ ONorm(pass_rows[i], LogMin(pass_rows), LogRange(pass_rows)) = 5000

\* C10 as stated: the composite is the weighted average over the present
\* components rescaled to the full weight sum, 0.0 with none present, and
\* 0.63 for the example row.
C10_CompositeAsStated ==
    /\ CompositeIsWeightedAverage
    /\ \A i \in 1..Len(raw_scores) : IsExampleRow(i) => raw_scores[i] = 630000

\* C10 amended: the same, with 0.53 (0.5*0.5 + 0.6*0.3 + 0.5*0.2) for the
\* example row.
C10_Composite ==
    /\ CompositeIsWeightedAverage
    /\ \A i \in 1..Len(raw_scores) : IsExampleRow(i) => raw_scores[i] = 530000

\* A completed pass whose rows include the example row.
C10_Witness ==
    /\ pc = "done"
    /\ \E i \in 1..Len(raw_scores) : IsExampleRow(i)

\* ------------------------------------------------- the adjustments (C11-C14)
\* The unadjusted composite (line 194) of a row of the latest pass.
Unadjusted(row) == RawScore(row, LogMin(pass_rows), LogRange(pass_rows))

\* Resilience present and below 2.0, growth exactly the decline label.
PenaltyCase(row) ==
    /\ row.ai_proof_score # ""
    /\ Float(row.ai_proof_score) < 20
    /\ row.ProjectedGrowth = DECLINE

\* Resilience present and at least 4.0, growth one of the two fastest labels.
BoostCase(row) ==
    /\ row.ai_proof_score # ""
    /\ Float(row.ai_proof_score) >= 40
    /\ row.ProjectedGrowth \in { FASTER, MUCH_FASTER }

\* C11: every row a ranking pass writes whose resilience is present and
\* below 2.0 and whose growth is the decline label has a final ranking of at
\* most 0.20, the minimum of its composite and 0.20 (to 3 decimals), whatever
\* its openings and the other rows of the pass.
C11_DeclinePenalty ==
    \A i \in 1..Len(ranked.rows) :
        LET row == ranked.rows[i]
        IN  PenaltyCase(row) =>
                /\ row.final_ranking <= 200
                /\ row.final_ranking = Round3(Min2(Unadjusted(row), 200000))

\* A completed pass with a penalised row whose composite was above 0.20
\* (its openings are the largest of the pass) and was cut to 0.20.
C11_Witness ==
    /\ pc = "done"
    /\ \E i \in 1..Len(file.rows) :
         /\ PenaltyCase(file.rows[i])
         /\ Unadjusted(file.rows[i]) > 200000
         /\ file.rows[i].final_ranking = 200

\* C12: a row whose resilience is at least 4.0 and whose growth is one of the
\* two fastest labels has final ranking min(unadjusted + 0.05, 1.00); a row in
\* neither the boost nor the penalty case has its unadjusted composite (both
\* to 3 decimals); no row is in both cases.
C12_BoostOrUnadjusted ==
    \A i \in 1..Len(ranked.rows) :
        LET row == ranked.rows[i]
        IN  /\ ~(PenaltyCase(row) /\ BoostCase(row))
            /\ BoostCase(row) =>
                  row.final_ranking = Round3(Min2(Unadjusted(row) + 50000, 1000000))
            /\ (~BoostCase(row) /\ ~PenaltyCase(row)) =>
                  row.final_ranking = Round3(Unadjusted(row))

\* A completed pass with a boosted row capped at 1.00, a boosted row below
\* the cap, and a row with neither adjustment.
C12_Witness ==
    /\ pc = "done"
    /\ \E i, j, k \in 1..Len(file.rows) :
         /\ BoostCase(file.rows[i])
         /\ Unadjusted(file.rows[i]) + 50000 > 1000000
         /\ file.rows[i].final_ranking = 1000
         /\ BoostCase(file.rows[j])
         /\ file.rows[j].final_ranking < 1000
         /\ file.rows[j].final_ranking = Round3(Unadjusted(file.rows[j])) + 50
         /\ ~BoostCase(file.rows[k]) /\ ~PenaltyCase(file.rows[k])
         /\ file.rows[k].final_ranking > 0

\* The place a persisted row had in the file before the pass (Codes are
\* unique under SpecRank).
PosBefore(code) == CHOOSE k \in 1..Len(pass_rows) : pass_rows[k].Code = code

\* C13: after a ranking pass the persisted rows are the rows read, in
\* non-increasing final ranking, and rows with the same final ranking are in
\* the order they had in the file before the pass.
C13_SortedStable ==
    pc = "done" =>
        /\ Len(file.rows) = Len(pass_rows)
        /\ FileCodes(file) = { pass_rows[k].Code : k \in 1..Len(pass_rows) }
        /\ SortedDescending(file.rows)
        /\ \A i, j \in 1..Len(file.rows) :
             (i < j /\ file.rows[i].final_ranking = file.rows[j].final_ranking)
                 => PosBefore(file.rows[i].Code) < PosBefore(file.rows[j].Code)

\* A completed pass that moved a row up past two rows that tie.
C13_Witness ==
    /\ pc = "done"
    /\ Len(file.rows) = 3
    /\ file.rows[1].Code = pass_rows[3].Code
    /\ file.rows[2].final_ranking = file.rows[3].final_ranking
    /\ file.rows[1].final_ranking > file.rows[2].final_ranking

\* C14: every final ranking a pass writes lies in [0, 1], for every set of
\* present components and after the penalty and the boost (the scores of
\* the rows are within [1.0, 5.0]).
C14_RankingInUnitInterval ==
    \A i \in 1..Len(ranked.rows) :
        /\ ranked.rows[i].final_ranking >= 0
        /\ ranked.rows[i].final_ranking <= 1000

\* A completed pass that wrote both ends of the interval: a boosted row at
\* 1.00 and a row with no component present at 0.0.
C14_Witness ==
    /\ pc = "done"
    /\ \E i, j \in 1..Len(file.rows) :
         /\ file.rows[i].final_ranking = 1000
         /\ BoostCase(file.rows[i])
         /\ file.rows[j].final_ranking = 0
         /\ PresentComponents(file.rows[j]) = {}

\* ------------------------------------------ the normalisers (C15-C17)
\* The rows of the latest pass whose count qualifies, their counts and their
\* normalised openings.
QualifyingRows == { i \in 1..Len(pass_rows) : Qualifies(pass_rows[i]) }

CountOf(i) == OpeningsInt(pass_rows[i].ProjectedJobOpenings)

ONormOf(i) == ONorm(pass_rows[i], LogMin(pass_rows), LogRange(pass_rows))

CountsDiffer == \E i, j \in QualifyingRows : CountOf(i) # CountOf(j)

\* C15: in a pass with a qualifying count, every qualifying row's normalised
\* openings is in [0, 1]; when the counts are not all equal every row with the
\* largest count of the whole pass has 1.0 and every row with the smallest has
\* 0.0; a larger count never has a smaller normalised value.
C15_OpeningsNormalised ==
    /\ \A i \in QualifyingRows : ONormOf(i) >= 0 /\ ONormOf(i) <= 10000
    /\ CountsDiffer =>
          \A i \in QualifyingRows :
              /\ (\A j \in QualifyingRows : CountOf(j) <= CountOf(i))
                    => ONormOf(i) = 10000
              /\ (\A j \in QualifyingRows : CountOf(j) >= CountOf(i))
                    => ONormOf(i) = 0
    /\ \A i, j \in QualifyingRows :
          CountOf(i) <= CountOf(j) => ONormOf(i) <= ONormOf(j)

\* A completed pass over three distinct qualifying counts, none of them 1:
\* the smallest at 0.0, the largest at 1.0, the third strictly between.
C15_Witness ==
    /\ pc = "done"
    /\ \E i, j, k \in QualifyingRows :
         /\ CountOf(i) > 1
         /\ CountOf(i) < CountOf(j) /\ CountOf(j) < CountOf(k)
         /\ ONormOf(i) = 0
         /\ ONormOf(j) > 0 /\ ONormOf(j) < 10000
         /\ ONormOf(k) = 10000

\* The composite of row i of the latest pass is the weighted average over
\* its present components other than c.
CompositeWithout(i, c) ==
    raw_scores[i] =
        WeightedOver(PresentComponents(pass_rows[i]) \ { c },
                     RNorm(pass_rows[i]), GNorm(pass_rows[i]), ONormOf(i))

\* C16: a ranking pass never raises on its openings cells and never divides
\* by zero; when all qualifying counts are equal every qualifying row has
\* normalised openings 0.0; a row whose count is empty, not a number or not
\* positive has no openings component in its weighted average (every row,
\* when no row qualifies).
C16_DegenerateOpeningsSafe ==
    /\ pc # "crashed"
    /\ LogRange(pass_rows) # 0
    /\ ~CountsDiffer => \A i \in QualifyingRows : ONormOf(i) = 0
    /\ \A i \in 1..Len(pass_rows) :
          i \notin QualifyingRows =>
              /\ ONormOf(i) = 0 - 1
              /\ CompositeWithout(i, "openings")

\* The normalised growth of the six labels as the specification lists them,
\* in 1e-4; -1 for absent.
GrowthAsListed(label) ==
    CASE label = "Decline (-1% or lower)" -> 0
      [] label = "Little or no change" -> 2000
      [] label = "Slower than average (1% to 2%)" -> 4000
      [] label = "Average (3% to 4%)" -> 6000
      [] label = "Faster than average (5% to 6%)" -> 8000
      [] label = "Much faster than average (7% or higher)" -> 10000
      [] OTHER -> 0 - 1

\* C17: the growth normaliser gives 0.0, 0.2, 0.4, 0.6, 0.8, 1.0 for the six
\* labels and absent for any other label, the empty one included; a row with
\* an absent growth has no growth component in its weighted average.
C17_GrowthNormaliser ==
    \A i \in 1..Len(pass_rows) :
        /\ GNorm(pass_rows[i]) = GrowthAsListed(pass_rows[i].ProjectedGrowth)
        /\ GNorm(pass_rows[i]) = 0 - 1 => CompositeWithout(i, "growth")

\* A completed pass over a row with the empty label, a row with an unknown
\* label and a row with a listed label, the first two with another component
\* present.
C17_Witness ==
    /\ pc = "done"
    /\ \E i, j, k \in 1..Len(pass_rows) :
         /\ pass_rows[i].ProjectedGrowth = ""
         /\ pass_rows[i].ai_proof_score # ""
         /\ pass_rows[j].ProjectedGrowth = "Bright outlook"
         /\ raw_scores[j] > 0
         /\ GNorm(pass_rows[k]) = 4000

\* ------------------------------------------------- the enrichment pass (C18)
\* The Codes whose entry a run started now would load from the cache file.
OnDisk ==
    IF cache_file.exists /\ cache_file.text = "json"
    THEN Keys(cache_file.data) ELSE {}

\* The fetches made so far whose result is not on disk.
LostFetches == fetched_ever \ OnDisk

\* In a run a Code is fetched at most once and only when it was not in the
\* cache the run loaded; a fetch that raised has three empty values recorded;
\* a run that reached its end went through every row, and the cache on disk
\* holds every row's Code.
FetchedOnceEach ==
    /\ \A j, k \in 1..Len(fetch_log) :
         j # k => fetch_log[j].code # fetch_log[k].code
    /\ \A k \in 1..Len(fetch_log) :
         /\ fetch_log[k].code \notin Keys(start_cache)
         /\ ~fetch_log[k].ok => Get(cache, fetch_log[k].code) = EmptyData
    /\ epc = "done" =>
         /\ Range(EnrichRows) \ Keys(start_cache)
              = { fetch_log[k].code : k \in 1..Len(fetch_log) }
         /\ Range(EnrichRows) \subseteq OnDisk

\* C18: every row whose Code is not in the cache is fetched once, a fetch
\* that fails records three empty values and the pass goes on to its end, a
\* cached row is never fetched, and the cache on disk is rewritten after each
\* fetch, so that a run terminated at any point has lost at most one fetch.
C18_EnrichmentPass ==
    /\ FetchedOnceEach
    /\ epc = "killed" => Cardinality(LostFetches) <= 1

\* --------------------------------------------- resumption (C19, C20)
\* C19: whenever no rewrite is under way, every entry of every batch that
\* was written without error, in this run or an earlier one, has a persisted
\* row that reads, under the file's header, with the entry's score and the
\* entry's rationale: neither an append nor a ranking pass has changed or
\* dropped them.
C19_ScoresSurvive ==
    pc \in { "batches", "done" } =>
        \A p \in completed :
            \E i \in 1..Len(file.rows) :
                LET row == DictRead(file.header, file.rows[i])
                IN  /\ row.Code = p[1]
                    /\ row.ai_proof_score = p[2]
                    /\ row.key_drivers = p[3]

\* C20: the Codes in the output are Codes of scoreable input records, and
\* the rows a batch step writes each carry the non-empty Code of a record
\* submitted in that batch, not yet in the output, one row per Code: an
\* entry naming an unknown, empty, already scored or not submitted record
\* writes no row.
C20_RowsOnlyForSubmitted ==
    [][ /\ FileCodes(file') \subseteq Range(Codes(load_occupations))
        /\ BatchStep =>
             LET base == IF ~write_header /\ file.exists THEN Len(file.rows)
                         ELSE 0
                 new == SubSeq(file'.rows, base + 1, Len(file'.rows))
             IN  /\ \A i \in 1..Len(new) :
                      /\ new[i].Code # ""
                      /\ new[i].Code \in Range(last'.batch)
                      /\ base > 0 => new[i].Code \notin FileCodes(file)
                 /\ \A i, j \in 1..Len(new) :
                      i # j => new[i].Code # new[j].Code
      ]_vars

\* ------------------------------------------------------ idempotence (C21)
\* The file this run started from is the output of a ranking pass and this
\* run has appended nothing to it: it had no batch to go through.
SecondPassOnly ==
    /\ start_file.exists
    /\ start_file.header = "ranked"
    /\ start_file.rows # <<>>
    /\ \A i \in 1..Len(start_file.rows) : start_file.rows[i].nf = 11
    /\ log = <<>>

\* A ranking pass of this run has written the file.
PassWritten == pc = "done" /\ ranked.exists

\* C21: a ranking pass applied to the file an earlier pass produced, with no
\* row added in between, leaves the file as it was (rows, order, final
\* rankings, columns); and after any pass every row's final ranking is the
\* one computed from the rows of that pass, also for a row that had a stored
\* value.
C21_RankingIdempotent ==
    PassWritten =>
        /\ \A i \in 1..Len(file.rows) :
             file.rows[i].final_ranking =
                 FinalRanking(file.rows[i], LogMin(pass_rows), LogRange(pass_rows))
        /\ SecondPassOnly => file = start_file

\* A second pass over a ranked file of several rows, some of which tie and
\* some of which do not, with nothing appended.
C21_Witness ==
    /\ PassWritten
    /\ SecondPassOnly
    /\ runs = 2
    /\ pass_rows = start_file.rows
    /\ \E i, j, k \in 1..Len(file.rows) :
         /\ i < j /\ j < k
         /\ file.rows[i].final_ranking = file.rows[j].final_ranking
         /\ file.rows[j].final_ranking > file.rows[k].final_ranking

=============================================================================
